------------------------------ MODULE Spec2Model ------------------------------
(***************************************************************************)
(* Model of the media-manager reconciliation and plan execution.           *)
(*                                                                         *)
(* Strings are sequences of characters; a character is a one-character    *)
(* TLA+ string, or a named token for a character outside ASCII.  Paths are *)
(* sequences of segments, each segment a string.                          *)
(***************************************************************************)
EXTENDS Integers, Sequences, FiniteSets, TLC

(***************************************************************************)
(* Characters                                                              *)
(***************************************************************************)

\* The printable ASCII characters in code point order, 32 .. 126 (GRAVE names
\* the grave accent, U+0060).
Ascii ==
  << " ", "!", "\"", "#", "$", "%", "&", "'", "(", ")", "*", "+", ",", "-", ".", "/",
     "0", "1", "2", "3", "4", "5", "6", "7", "8", "9", ":", ";", "<", "=", ">", "?",
     "@", "A", "B", "C", "D", "E", "F", "G", "H", "I", "J", "K", "L", "M", "N", "O",
     "P", "Q", "R", "S", "T", "U", "V", "W", "X", "Y", "Z", "[", "\\", "]", "^", "_",
     "GRAVE", "a", "b", "c", "d", "e", "f", "g", "h", "i", "j", "k", "l", "m", "n", "o",
     "p", "q", "r", "s", "t", "u", "v", "w", "x", "y", "z", "{", "|", "}", "~" >>

\* Characters outside printable ASCII that the model knows: the tab "\t", the
\* null character (NUL), and
\* four characters beyond U+007F with their str.lower() image and the ASCII
\* characters left of their NFKD decomposition by encode("ASCII", "ignore").
\*   e_acute  U+00E9    E_ACUTE  U+00C9    H_FRAK  U+210C    sharp_s  U+00DF
NonAscii ==
  << [ch |-> "e_acute", code |-> 233,  lower |-> "e_acute", nfkd |-> <<"e">>],
     [ch |-> "E_ACUTE", code |-> 201,  lower |-> "e_acute", nfkd |-> <<"E">>],
     [ch |-> "H_FRAK",  code |-> 8460, lower |-> "H_FRAK",  nfkd |-> <<"H">>],
     [ch |-> "sharp_s", code |-> 223,  lower |-> "sharp_s", nfkd |-> <<>>] >>

\* Ascii and NonAscii as lookup tables
AsciiIndex ==
  [c \in {Ascii[k] : k \in 1..Len(Ascii)} |-> CHOOSE k \in 1..Len(Ascii) : Ascii[k] = c]

NonAsciiTable ==
  [c \in {NonAscii[k].ch : k \in 1..Len(NonAscii)} |->
     NonAscii[CHOOSE k \in 1..Len(NonAscii) : NonAscii[k].ch = c]]

IsAscii(c) == c \in DOMAIN AsciiIndex

NonAsciiEntry(c) == NonAsciiTable[c]

\* ord(c)
Code(c) ==
  IF c = "\t" THEN 9
  ELSE IF c = "NUL" THEN 0
  ELSE IF IsAscii(c) THEN 31 + AsciiIndex[c]
  ELSE NonAsciiEntry(c).code

IsDigit(c) == IsAscii(c) /\ Code(c) \in 48..57
IsUpper(c) == IsAscii(c) /\ Code(c) \in 65..90
IsLowerLetter(c) == IsAscii(c) /\ Code(c) \in 97..122
\* \s of the re module, over the characters of the model
IsSpace(c) == c \in {" ", "\t"}
\* \w of the re module, over the characters that survive the ASCII encoding
IsWord(c) == IsDigit(c) \/ IsUpper(c) \/ IsLowerLetter(c) \/ c = "_"

\* str.lower() of one character
LowerChar(c) ==
  IF c \in {"\t", "NUL"} THEN c
  ELSE IF IsAscii(c) THEN (IF IsUpper(c) THEN Ascii[Code(c) - 31 + 32] ELSE c)
  ELSE NonAsciiEntry(c).lower

\* unicodedata.normalize("NFKD", c).encode("ASCII", "ignore") of one character
AsciiFold(c) ==
  IF c \in {"\t", "NUL"} \/ IsAscii(c) THEN <<c>> ELSE NonAsciiEntry(c).nfkd

(***************************************************************************)
(* Strings                                                                 *)
(***************************************************************************)

SeqRange(l) == {l[k] : k \in 1..Len(l)}

MapStr(F(_), s) == [i \in 1..Len(s) |-> F(s[i])]

RECURSIVE Flatten(_)
Flatten(ss) == IF ss = <<>> THEN <<>> ELSE Head(ss) \o Flatten(Tail(ss))

\* s.replace(c, r) for a one-character c and a string r
ReplaceChar(s, c, r) ==
  Flatten([i \in 1..Len(s) |-> IF s[i] = c THEN r ELSE <<s[i]>>])

\* re.sub(r"\s+", " ", s)
RECURSIVE CollapseSpaces(_)
CollapseSpaces(s) ==
  IF s = <<>> THEN <<>>
  ELSE IF IsSpace(Head(s))
       THEN IF Len(s) > 1 /\ IsSpace(s[2])
            THEN CollapseSpaces(Tail(s))
            ELSE <<" ">> \o CollapseSpaces(Tail(s))
       ELSE <<Head(s)>> \o CollapseSpaces(Tail(s))

\* s.lstrip(chars) and s.rstrip(chars), chars given as a set
RECURSIVE LStrip(_, _)
LStrip(s, chars) ==
  IF s # <<>> /\ Head(s) \in chars THEN LStrip(Tail(s), chars) ELSE s

RECURSIVE RStrip(_, _)
RStrip(s, chars) ==
  IF s # <<>> /\ s[Len(s)] \in chars
  THEN RStrip(SubSeq(s, 1, Len(s) - 1), chars) ELSE s

Strip(s, chars) == RStrip(LStrip(s, chars), chars)

Whitespace == {" ", "\t"}

\* a + sep + b + ... for a sequence of strings
RECURSIVE Join(_, _)
Join(sep, ss) ==
  IF ss = <<>> THEN <<>>
  ELSE IF Len(ss) = 1 THEN ss[1]
  ELSE ss[1] \o sep \o Join(sep, Tail(ss))

\* s < t in the order of Python strings (code point by code point)
RECURSIVE LessStr(_, _)
LessStr(s, t) ==
  IF t = <<>> THEN FALSE
  ELSE IF s = <<>> THEN TRUE
  ELSE IF Code(Head(s)) # Code(Head(t)) THEN Code(Head(s)) < Code(Head(t))
  ELSE LessStr(Tail(s), Tail(t))

\* The first index at which sub occurs in s, 0 when it does not (str.find + 1)
Find(s, sub) ==
  LET hits == {i \in 1..(Len(s) - Len(sub) + 1) :
                  SubSeq(s, i, i + Len(sub) - 1) = sub}
  IN IF hits = {} THEN 0 ELSE CHOOSE i \in hits : \A j \in hits : i <= j

(***************************************************************************)
(* utils.normalize_name                                                    *)
(***************************************************************************)
KeptByNormalize(c) == IsWord(c) \/ IsSpace(c) \/ c \in {"-", "(", ")"}

normalize_name(name) ==
  LET lowered  == MapStr(LowerChar, name)
      folded   == Flatten(MapStr(AsciiFold, lowered))
      quoted   == ReplaceChar(ReplaceChar(folded, "\"", <<"_">>), "'", <<"_">>)
      kept     == SelectSeq(quoted, KeptByNormalize)
      spaced   == ReplaceChar(kept, "_", <<" ">>)
      collapsed == CollapseSpaces(spaced)
  IN Strip(collapsed, Whitespace)

(***************************************************************************)
(* utils.extract_artist_and_track                                          *)
(***************************************************************************)

\* Length of the longest prefix of s whose characters all satisfy Test
RECURSIVE SpanLen(_, _)
SpanLen(Test(_), s) ==
  IF s # <<>> /\ Test(Head(s)) THEN 1 + SpanLen(Test, Tail(s)) ELSE 0

Drop(s, n) == SubSeq(s, n + 1, Len(s))

\* re.sub(r"^\d+\s*[\.\-]\s*", "", name)
StripNumberPrefix(name) ==
  LET nd     == SpanLen(IsDigit, name)
      rest1  == Drop(name, nd)
      rest2  == Drop(rest1, SpanLen(IsSpace, rest1))
  IN IF nd > 0 /\ rest2 # <<>> /\ Head(rest2) \in {".", "-"}
     THEN Drop(Tail(rest2), SpanLen(IsSpace, Tail(rest2)))
     ELSE name

\* The index of the last "." of s, 0 when there is none (str.rfind + 1)
LastDot(s) ==
  LET dots == {i \in 1..Len(s) : s[i] = "."}
  IN IF dots = {} THEN 0 ELSE CHOOSE i \in dots : \A j \in dots : j <= i

\* os.path.splitext(name)[0]: the extension starts at the last dot, provided a
\* character other than a dot comes before it
SplitextRoot(name) ==
  LET d == LastDot(name)
  IN IF d > 0 /\ \E k \in 1..(d - 1) : name[k] # "."
     THEN SubSeq(name, 1, d - 1)
     ELSE name

\* pathlib's PurePath.suffix of a file name
Suffix(name) ==
  LET d == LastDot(name)
  IN IF 1 < d /\ d < Len(name) THEN SubSeq(name, d, Len(name)) ELSE <<>>

Separator == <<" ", "-", " ">>

\* The result of extract_artist_and_track on a file name: ok with the
\* normalized (artist, track), or the FileParsingError with its reason
extract_artist_and_track(filename) ==
  LET name == SplitextRoot(StripNumberPrefix(filename))
      at   == Find(name, Separator)
      artist == normalize_name(SubSeq(name, 1, at - 1))
      track  == normalize_name(Drop(name, at + Len(Separator) - 1))
  IN IF at = 0
     THEN [ok |-> FALSE, reason |-> "Expected format"]
     ELSE IF artist = <<>> \/ track = <<>>
     THEN [ok |-> FALSE, reason |-> "Empty artist or track name after normalization"]
     ELSE [ok |-> TRUE, artist |-> artist, track |-> track]

(***************************************************************************)
(* utils.sanitize_filename                                                 *)
(***************************************************************************)

\* The replacements dictionary, in its insertion order
Replacements ==
  << <<":", <<"-">> >>, <<"/", <<"-">> >>, <<"\\", <<"-">> >>, <<"<", <<"(">> >>,
     <<">", <<")">> >>, <<"\"", <<"'">> >>, <<"|", <<"-">> >>, <<"?", <<>> >>,
     <<"*", <<>> >>, <<"NUL", <<>> >> >>

RECURSIVE ApplyReplacements(_, _)
ApplyReplacements(s, reps) ==
  IF reps = <<>> THEN s
  ELSE ApplyReplacements(ReplaceChar(s, Head(reps)[1], Head(reps)[2]), Tail(reps))

sanitize_filename(name) ==
  CollapseSpaces(Strip(ApplyReplacements(name, Replacements), {".", " "}))

(***************************************************************************)
(* Paths and the filesystem                                                *)
(***************************************************************************)

\* A path is the sequence of its segments.  base / segment of pathlib: an
\* empty segment adds nothing.
PathJoin(base, segment) ==
  IF segment = <<>> THEN base ELSE Append(base, segment)

PathName(path) == path[Len(path)]

PathParent(path) == SubSeq(path, 1, Len(path) - 1)

\* The path and every directory above it
Ancestors(path) == {SubSeq(path, 1, k) : k \in 1..Len(path)}

\* The entries folder.iterdir() yields, as a set
Entries(folder, fileSet, dirSet) ==
  {q \in fileSet \cup dirSet : Len(q) = Len(folder) + 1 /\ PathParent(q) = folder}

\* Every order in which the filesystem may list a set of entries
Orderings(S) ==
  {l \in [1..Cardinality(S) -> S] : \A a, b \in 1..Cardinality(S) : l[a] = l[b] => a = b}

\* Path ordering within one folder: by file name
LessPath(q, r) == LessStr(PathName(q), PathName(r))

\* The listing left in the order the filesystem gave it
Sorted_asListed(l) == l

RECURSIVE InsertSorted(_, _)
InsertSorted(q, l) ==
  IF l = <<>> THEN <<q>>
  ELSE IF LessPath(q, Head(l)) THEN <<q>> \o l
  ELSE <<Head(l)>> \o InsertSorted(q, Tail(l))

\* sorted(listing)
RECURSIVE Sorted(_)
Sorted(l) == IF l = <<>> THEN <<>> ELSE InsertSorted(Head(l), Sorted(Tail(l)))

SUPPORTED_EXTENSIONS ==
  { <<".", "f", "l", "a", "c">>, <<".", "m", "p", "3">>, <<".", "m", "4", "a">>,
    <<".", "w", "a", "v">>, <<".", "a", "a", "c">>, <<".", "o", "g", "g">>,
    <<".", "w", "m", "a">> }

IsAudioFile(q, fileSet) ==
  /\ MapStr(LowerChar, Suffix(PathName(q))) \in SUPPORTED_EXTENSIONS
  /\ q \in fileSet

\* utils.collect_audio_files, given for each folder the order in which the
\* filesystem lists it: the audio files, folder by folder, each folder sorted
RECURSIVE collect_audio_files(_, _, _)
collect_audio_files(folders, listings, fileSet) ==
  IF folders = <<>> THEN <<>>
  ELSE LET keep(q) == IsAudioFile(q, fileSet)
       IN SelectSeq(Sorted(Head(listings)), keep)
          \o collect_audio_files(Tail(folders), Tail(listings), fileSet)

(***************************************************************************)
(* validate_input_folders                                                  *)
(***************************************************************************)

NoViolations ==
  [missing_folders |-> <<>>, permission_errors |-> <<>>, not_directories |-> <<>>]

\* The folder is put into the list of its first failing test, if any
ValidateFolder(r, folder_path, fileSet, dirSet, refusedMap) ==
  IF folder_path \notin fileSet \cup dirSet
  THEN [r EXCEPT !.missing_folders = Append(@, folder_path)]
  ELSE IF folder_path \notin dirSet
  THEN [r EXCEPT !.not_directories = Append(@, folder_path)]
  ELSE IF folder_path \in DOMAIN refusedMap
  THEN [r EXCEPT !.permission_errors =
          Append(@, IF refusedMap[folder_path] = "PermissionError"
                    THEN folder_path
                    ELSE folder_path \o << <<"(", "O", "S", " ", "E", "r", "r", "o", "r", ")">> >>)]
  ELSE r

\* The validation that ends at the first folder that fails a test
RECURSIVE validate_input_folders_firstOnly(_, _, _, _)
validate_input_folders_firstOnly(input_folders, fileSet, dirSet, refusedMap) ==
  IF input_folders = <<>> THEN NoViolations
  ELSE LET r == ValidateFolder(NoViolations, Head(input_folders), fileSet, dirSet, refusedMap)
       IN IF r # NoViolations THEN r
          ELSE validate_input_folders_firstOnly(Tail(input_folders), fileSet, dirSet,
                                                refusedMap)

\* The three lists at the end of the loop over input_folders
RECURSIVE validate_input_folders(_, _, _, _)
validate_input_folders(input_folders, fileSet, dirSet, refusedMap) ==
  IF input_folders = <<>> THEN NoViolations
  ELSE ValidateFolder(
         validate_input_folders(SubSeq(input_folders, 1, Len(input_folders) - 1),
                                fileSet, dirSet, refusedMap),
         input_folders[Len(input_folders)], fileSet, dirSet, refusedMap)

(***************************************************************************)
(* Playlist._get_consolidated_album_artist, _build_album_artist_map        *)
(***************************************************************************)

VariousArtists ==
  <<"V", "a", "r", "i", "o", "u", "s", " ", "A", "r", "t", "i", "s", "t", "s">>

UnknownArtist ==
  <<"U", "n", "k", "n", "o", "w", "n", " ", "A", "r", "t", "i", "s", "t">>

\* The number of times an artist is listed on the tracks: Counter[artist]
RECURSIVE Occurrences(_, _)
Occurrences(x, l) ==
  IF l = <<>> THEN 0
  ELSE (IF Head(l) = x THEN 1 ELSE 0) + Occurrences(x, Tail(l))

\* The count that sees an artist once on each track that lists it
RECURSIVE ArtistCount_oncePerTrack(_, _)
ArtistCount_oncePerTrack(artist, trackList) ==
  IF trackList = <<>> THEN 0
  ELSE (IF Occurrences(artist, Head(trackList).artists) > 0 THEN 1 ELSE 0)
         + ArtistCount_oncePerTrack(artist, Tail(trackList))

RECURSIVE ArtistCount(_, _)
ArtistCount(artist, trackList) ==
  IF trackList = <<>> THEN 0
  ELSE Occurrences(artist, Head(trackList).artists) + ArtistCount(artist, Tail(trackList))

ArtistsOf(trackList) ==
  UNION {{trackList[t].artists[a] : a \in 1..Len(trackList[t].artists)} :
           t \in 1..Len(trackList)}

_get_consolidated_album_artist(trackList) ==
  IF trackList = <<>> THEN UnknownArtist
  ELSE
    LET counted == ArtistsOf(trackList)
        max_count == CHOOSE n \in {ArtistCount(a, trackList) : a \in counted} :
                        \A a \in counted : ArtistCount(a, trackList) <= n
        top_artists == {a \in counted : ArtistCount(a, trackList) = max_count}
    IN IF counted = {} THEN trackList[1].album_artist
       ELSE IF Cardinality(top_artists) = 1 THEN CHOOSE a \in top_artists : TRUE
       ELSE IF Cardinality(top_artists) > 2 THEN VariousArtists
       ELSE LET lo == CHOOSE a \in top_artists : \A b \in top_artists \ {a} : LessStr(a, b)
                hi == CHOOSE b \in top_artists : b # lo
            IN lo \o <<" ", "&", " ">> \o hi

\* The tracks of one album, in playlist order
AlbumTracks(trackList, album_id) ==
  LET OfAlbum(t) == t.album_id = album_id IN SelectSeq(trackList, OfAlbum)

\* The grouping keeping only the last track of each album
_build_album_artist_map_lastTrack(trackList) ==
  [id \in {trackList[t].album_id : t \in 1..Len(trackList)} |->
      _get_consolidated_album_artist(
        <<AlbumTracks(trackList, id)[Len(AlbumTracks(trackList, id))]>>)]

_build_album_artist_map(trackList) ==
  [id \in {trackList[t].album_id : t \in 1..Len(trackList)} |->
      _get_consolidated_album_artist(AlbumTracks(trackList, id))]

(***************************************************************************)
(* PlaylistMatch._generate_destination_path                                *)
(***************************************************************************)

Digit(d) == Ascii[17 + d]

RECURSIVE Decimal(_)
Decimal(n) == IF n < 10 THEN <<Digit(n)>> ELSE Decimal(n \div 10) \o <<Digit(n % 10)>>

\* f"{n:02d}"
Pad2(n) == IF n < 10 THEN <<"0">> \o Decimal(n) ELSE Decimal(n)

_generate_destination_path(match, base_destination) ==
  LET file_ext == Suffix(PathName(match.local_file))
      album_artist == sanitize_filename(match.consolidated_album_artist)
      album_name == sanitize_filename(match.track.album_name)
      track_name == sanitize_filename(match.track.name)
      artists_str == sanitize_filename(Join(<<",", " ">>, match.track.artists))
      filename == Pad2(match.track.track_num) \o Separator \o artists_str
                    \o Separator \o track_name \o file_ext
  IN PathJoin(PathJoin(PathJoin(base_destination, album_artist), album_name), filename)

(***************************************************************************)
(* The inputs: what the playlist service returns and what is on disk       *)
(***************************************************************************)

\* The longest playlist, the most files on disk, the number of invocations
\* and the number of failing system calls that are explored
MaxTracks == 2
MaxFiles == 2
MaxRuns == 2
MaxFaults == 1

\* Tracks as the playlist service returns them.  The first two belong to one
\* album and share the normalized name "a" and the artist "x"; the second
\* lists that artist last.  The third is alone on its album.  The fourth has
\* a title that normalizes to the empty string.
TrackCatalogue ==
  { [name |-> <<"A">>, artists |-> << <<"x">> >>,
     album_id |-> 1, album_name |-> <<"L">>, album_artist |-> <<"v">>, track_num |-> 1],
    [name |-> <<"a">>, artists |-> << <<"y">>, <<"x">> >>,
     album_id |-> 1, album_name |-> <<"L">>, album_artist |-> <<"v">>, track_num |-> 2],
    [name |-> <<"b">>, artists |-> << <<"Y">> >>,
     album_id |-> 2, album_name |-> <<"M", ":">>, album_artist |-> <<"w">>, track_num |-> 10],
    [name |-> <<"?">>, artists |-> << <<"x">> >>,
     album_id |-> 2, album_name |-> <<"M", ":">>, album_artist |-> <<"w">>, track_num |-> 3] }

In1 == << <<"i", "n", "1">> >>
In2 == << <<"i", "n", "2">> >>
Out == << <<"o", "u", "t">> >>

\* The arguments of Playlist.move_or_copy that main.start passes on
local_folders == <<In1, In2>>
destination == Out

\* Files that may be on disk: two renderings of track "a" in the first
\* folder, track "b" with a number prefix and an upper-case extension, a
\* name without the separator, and a file that is not audio
FileCatalogue ==
  { Append(In1, <<"x", " ", "-", " ", "a", ".", "m", "p", "3">>),
    Append(In1, <<"y", " ", "-", " ", "a", ".", "m", "p", "3">>),
    Append(In2, <<"1", ".", " ", "y", " ", "-", " ", "b", ".", "M", "P", "3">>),
    Append(In1, <<"a", "b", ".", "m", "p", "3">>),
    Append(In2, <<"x", " ", "-", " ", "a", ".", "t", "x", "t">>) }

Playlists ==
  UNION {[1..n -> TrackCatalogue] : n \in 0..MaxTracks}

FileSets == {S \in SUBSET FileCatalogue : Cardinality(S) <= MaxFiles}

(***************************************************************************)
(* Track, Playlist.__init__                                                *)
(***************************************************************************)

\* Track(position, track) for position, track in enumerate(raw_tracks)
WrapTracks(raw_tracks) ==
  [n \in 1..Len(raw_tracks) |->
     [position |-> n - 1,
      name |-> raw_tracks[n].name,
      artists |-> raw_tracks[n].artists,
      album_id |-> raw_tracks[n].album_id,
      album_name |-> raw_tracks[n].album_name,
      album_artist |-> raw_tracks[n].album_artist,
      track_num |-> raw_tracks[n].track_num]]

\* Track.normalized_artists
normalized_artists(track) == MapStr(normalize_name, track.artists)

(***************************************************************************)
(* Playlist.verify_playlist: the steps of its loops                        *)
(***************************************************************************)

\* matched_file = None
NoPath == <<>>

EmptyMap == <<>>

\* One iteration of the loop over local_files: the index gains the file under
\* its normalized track name
IndexFile(map, file_path) ==
  LET r == extract_artist_and_track(PathName(file_path))
      entry == <<r.artist, file_path>>
  IN IF r.track \in DOMAIN map
     THEN [map EXCEPT ![r.track] = Append(@, entry)]
     ELSE map @@ (r.track :> <<entry>>)

\* The inner loop: the first local entry whose artist is playlist_artist
RECURSIVE FirstEntryOfArtist(_, _)
FirstEntryOfArtist(playlist_artist, local_entries) ==
  IF local_entries = <<>> THEN NoPath
  ELSE IF Head(local_entries)[1] = playlist_artist THEN Head(local_entries)[2]
  ELSE FirstEntryOfArtist(playlist_artist, Tail(local_entries))

\* The loops nested the other way round: the first local entry whose artist
\* is any of the track's artists
RECURSIVE MatchedFile_entryFirst(_, _)
MatchedFile_entryFirst(playlist_artists, local_entries) ==
  IF local_entries = <<>> THEN NoPath
  ELSE IF Head(local_entries)[1] \in SeqRange(playlist_artists)
  THEN Head(local_entries)[2]
  ELSE MatchedFile_entryFirst(playlist_artists, Tail(local_entries))

\* The outer loop over the track's normalized artists, left on the first hit
RECURSIVE MatchedFile(_, _)
MatchedFile(playlist_artists, local_entries) ==
  IF playlist_artists = <<>> THEN NoPath
  ELSE LET hit == FirstEntryOfArtist(Head(playlist_artists), local_entries)
       IN IF hit # NoPath THEN hit
          ELSE MatchedFile(Tail(playlist_artists), local_entries)

\* self._album_artist_map.get(track.album.id, track.album_artist.name)
ConsolidatedFor(track, map) ==
  IF track.album_id \in DOMAIN map THEN map[track.album_id] ELSE track.album_artist

\* PlaylistMatch(track, local_file, consolidated_album_artist)
PlaylistMatch(track, local_file, consolidated_album_artist) ==
  [track |-> track, local_file |-> local_file,
   consolidated_album_artist |-> consolidated_album_artist]

\* The mismatch branch recording the track as missing
ClassifyTrack_mismatchAsMissing(track, map, artistMap) ==
  LET track_name == normalize_name(track.name)
      local_entries == IF track_name \in DOMAIN map THEN map[track_name] ELSE <<>>
      matched_file == MatchedFile(normalized_artists(track), local_entries)
  IN IF local_entries = <<>> \/ matched_file = NoPath
     THEN [kind |-> "missing",
           entry |-> [position |-> track.position + 1, name |-> track.name,
                      artists |-> track.artists]]
     ELSE [kind |-> "match",
           entry |-> PlaylistMatch(track, matched_file, ConsolidatedFor(track, artistMap))]

\* What one iteration of the loop over self.tracks decides for a track
ClassifyTrack(track, map, artistMap) ==
  LET track_name == normalize_name(track.name)
      local_entries == IF track_name \in DOMAIN map THEN map[track_name] ELSE <<>>
      matched_file == MatchedFile(normalized_artists(track), local_entries)
  IN IF local_entries = <<>>
     THEN [kind |-> "missing",
           entry |-> [position |-> track.position + 1, name |-> track.name,
                      artists |-> track.artists]]
     ELSE IF matched_file # NoPath
     THEN [kind |-> "match",
           entry |-> PlaylistMatch(track, matched_file, ConsolidatedFor(track, artistMap))]
     ELSE [kind |-> "mismatch",
           entry |-> [position |-> track.position + 1, name |-> track.name,
                      local_artists |-> [k \in 1..Len(local_entries) |-> local_entries[k][1]],
                      expected |-> track.artists]]

\* How verify_playlist ends once both loops are done: the match rate divides
\* by the number of playlist tracks before the report lists are looked at
VerifyEnd(trackList, parsing, mismatches, missing) ==
  IF Len(trackList) = 0 THEN [type |-> "ZeroDivisionError"]
  ELSE IF parsing # <<>> \/ mismatches # <<>> \/ missing # <<>>
  THEN [type |-> "PlaylistVerificationError", parsing_errors |-> parsing,
        artist_mismatches |-> mismatches, missing_from_playlist |-> missing]
  ELSE [type |-> "none"]

(***************************************************************************)
(* PlaylistMatch.move_or_copy                                              *)
(***************************************************************************)

\* The system calls that may fail under the executor
Faults == {"none", "mkdir", "transfer"}

\* The parent directories made before dry_run is looked at
PlaylistMatch_move_or_copy_mkdirFirst(match, base_destination, cp, mv, dry, fault, fileSet, dirSet) ==
  LET src == match.local_file
      dst == _generate_destination_path(match, base_destination)
      operation == IF mv THEN "move" ELSE "copy"
      parents == Ancestors(PathParent(dst))
      End(kind, op, fs, ds, calls) ==
        [kind |-> kind, operation |-> op, src |-> src, dst |-> dst,
         files |-> fs, dirs |-> ds, calls |-> calls]
  IN IF ~cp /\ ~mv THEN End("return", "none", fileSet, dirSet, <<>>)
     ELSE IF src \notin fileSet \cup dirSet
     THEN End("error", "validate source", fileSet, dirSet, <<>>)
     ELSE IF dst \in fileSet \cup dirSet /\ ~dry
     THEN End("skip", operation, fileSet, dirSet, <<>>)
     ELSE IF fault = "mkdir" \/ parents \cap fileSet # {}
     THEN End("error", operation, fileSet, dirSet, <<"mkdir">>)
     ELSE IF dry THEN End("would", operation, fileSet, dirSet \cup parents, <<"mkdir">>)
     ELSE IF fault = "transfer"
     THEN End("error", operation, fileSet, dirSet \cup parents, <<"mkdir", operation>>)
     ELSE End("done", operation,
              IF mv THEN (fileSet \ {src}) \cup {dst} ELSE fileSet \cup {dst},
              dirSet \cup parents, <<"mkdir", operation>>)

\* What applying one match does: how it ends (return without a mode, error,
\* skip, would (dry run), done), the operation it names, the filesystem it
\* leaves and the system calls it made
PlaylistMatch_move_or_copy(match, base_destination, cp, mv, dry, fault, fileSet, dirSet) ==
  LET src == match.local_file
      dst == _generate_destination_path(match, base_destination)
      operation == IF mv THEN "move" ELSE "copy"
      parents == Ancestors(PathParent(dst))
      End(kind, op, fs, ds, calls) ==
        [kind |-> kind, operation |-> op, src |-> src, dst |-> dst,
         files |-> fs, dirs |-> ds, calls |-> calls]
  IN IF ~cp /\ ~mv THEN End("return", "none", fileSet, dirSet, <<>>)
     ELSE IF src \notin fileSet \cup dirSet
     THEN End("error", "validate source", fileSet, dirSet, <<>>)
     ELSE IF dst \in fileSet \cup dirSet /\ ~dry
     THEN End("skip", operation, fileSet, dirSet, <<>>)
     ELSE IF dry THEN End("would", operation, fileSet, dirSet, <<>>)
     ELSE IF fault = "mkdir" \/ parents \cap fileSet # {}
     THEN End("error", operation, fileSet, dirSet, <<"mkdir">>)
     ELSE IF fault = "transfer"
     THEN End("error", operation, fileSet, dirSet \cup parents, <<"mkdir", operation>>)
     ELSE End("done", operation,
              IF mv THEN (fileSet \ {src}) \cup {dst} ELSE fileSet \cup {dst},
              dirSet \cup parents, <<"mkdir", operation>>)

\* The loop catching the error of a match and going on
AfterMatch_keepGoing(kind, index, count) ==
  IF index = count THEN (IF kind = "error" THEN "failed" ELSE "done")
  ELSE "apply"

\* The loop of Playlist.move_or_copy after a match was applied: an error
\* leaves it, otherwise it goes on to the next match
AfterMatch(kind, index, count) ==
  IF kind = "error" THEN "failed"
  ELSE IF index = count THEN "done"
  ELSE "apply"

(***************************************************************************)
(* State                                                                   *)
(***************************************************************************)

VARIABLES
  refused,             \* the directories that cannot be listed, with the error
  is_login,            \* TidalClient.is_login
  remote_calls,        \* the calls made to the playlist service
  tracks,              \* Playlist.tracks
  album_artist_map,    \* Playlist._album_artist_map
  files,               \* the regular files on disk
  dirs,                \* the directories on disk
  copy, move, dry_run, \* the arguments of the invocation
  pc,                  \* where the invocation stands
  local_files,         \* verify_playlist: the scanned files
  local_track_map,     \* verify_playlist: normalized track name -> entries
  parsing_errors,
  artist_mismatches,
  missing_from_local,
  matches,
  i,                   \* the index of the running loop
  err,                 \* the exception that ended the invocation
  log,                 \* what the executor reported, match by match
  ops,                 \* the system calls the executor made, match by match
  runs,                \* invocations so far
  faults,              \* failing system calls so far
  interrupted,         \* the matches of the invocation that was stopped and
                       \* then invoked again, <<>> otherwise
  call                 \* a function applied on its own: its name, its
                       \* argument and the values it returned

vars ==
  <<refused, is_login, remote_calls, tracks, album_artist_map, files, dirs, copy, move, dry_run, pc, local_files,
    local_track_map, parsing_errors, artist_mismatches, missing_from_local,
    matches, i, err, log, ops, runs, faults, interrupted, call>>

startVars == <<refused, is_login, remote_calls>>
playlistVars == <<tracks, album_artist_map>>
diskVars == <<files, dirs>>
argVars == <<copy, move, dry_run>>
verifyVars ==
  <<local_files, local_track_map, parsing_errors, artist_mismatches,
    missing_from_local, matches>>

NoError == [type |-> "none"]

\* No function is applied on its own
NoCall == [fn |-> "none", arg |-> <<>>, rets |-> <<>>]

\* What an input folder may be when main.start is entered
FolderKinds == {"directory", "missing", "file", "PermissionError", "OSError"}

\* main.start is entered: each input folder is a directory (that can be
\* listed or not), a regular file, or missing; the directories hold some of
\* the catalogue's files; there is no client and no Playlist yet
Init ==
  /\ \E kind \in [{In1, In2} -> FolderKinds] :
       /\ dirs = {f \in {In1, In2} : kind[f] \in {"directory", "PermissionError", "OSError"}}
       /\ refused = [f \in {g \in {In1, In2} : kind[g] \in {"PermissionError", "OSError"}}
                       |-> kind[f]]
       /\ \E S \in FileSets :
            /\ \A q \in S : kind[PathParent(q)] \notin {"missing", "file"}
            /\ files = S \cup {f \in {In1, In2} : kind[f] = "file"}
  /\ is_login = FALSE /\ remote_calls = <<>>
  /\ tracks = <<>> /\ album_artist_map = EmptyMap
  /\ copy = FALSE /\ move = FALSE /\ dry_run = FALSE
  /\ pc = "start"
  /\ local_files = <<>> /\ local_track_map = EmptyMap
  /\ parsing_errors = <<>> /\ artist_mismatches = <<>> /\ missing_from_local = <<>>
  /\ matches = <<>>
  /\ i = 1
  /\ err = NoError
  /\ log = <<>> /\ ops = <<>>
  /\ runs = 0 /\ faults = 0
  /\ interrupted = <<>>
  /\ call = NoCall

\* main.start: validate_input_folders(input_folders)
ValidateFolders ==
  /\ pc = "start"
  /\ \E r \in {validate_input_folders(local_folders, files, dirs, refused)} :
       IF r.missing_folders # <<>> \/ r.permission_errors # <<>> \/ r.not_directories # <<>>
       THEN /\ err' = [type |-> "FolderValidationError",
                       missing_folders |-> r.missing_folders,
                       permission_errors |-> r.permission_errors,
                       not_directories |-> r.not_directories]
            /\ pc' = "exit"
       ELSE /\ pc' = "validated"
            /\ UNCHANGED err
  /\ UNCHANGED <<call, startVars, playlistVars, diskVars, argVars, verifyVars, i, log,
                 ops, runs, faults, interrupted>>

\* main.start without --tidal-playlist-id: nothing more is done
NoPlaylistId ==
  /\ pc = "validated"
  /\ pc' = "exit"
  /\ UNCHANGED <<call, startVars, playlistVars, diskVars, argVars, verifyVars, i, err,
                 log, ops, runs, faults, interrupted>>

\* main.start: TidalClient(session_file).get_playlist(tidal_playlist_id): the
\* login fails, the fetch fails, or the Playlist is constructed from the
\* fetched tracks
GetPlaylist ==
  /\ pc = "validated"
  /\ \/ /\ remote_calls' = Append(remote_calls, "login")
        /\ err' = [type |-> "TidalAPIError", operation |-> "login"]
        /\ pc' = "exit"
        /\ UNCHANGED <<is_login, playlistVars>>
     \/ /\ remote_calls' = remote_calls \o <<"login", "playlist">>
        /\ is_login' = TRUE
        /\ err' = [type |-> "TidalAPIError", operation |-> "fetch playlist"]
        /\ pc' = "exit"
        /\ UNCHANGED playlistVars
     \/ /\ remote_calls' = remote_calls \o <<"login", "playlist">>
        /\ is_login' = TRUE
        /\ \E raw_tracks \in Playlists :
             /\ tracks' = WrapTracks(raw_tracks)
             /\ album_artist_map' = _build_album_artist_map(WrapTracks(raw_tracks))
        /\ pc' = "idle"
        /\ UNCHANGED err
  /\ UNCHANGED <<call, refused, diskVars, argVars, verifyVars, i, log, ops, runs,
                 faults, interrupted>>

\* Entering Playlist.move_or_copy: verify_playlist starts afresh
EnterVerify ==
  /\ pc' = "scan"
  /\ local_files' = <<>> /\ local_track_map' = EmptyMap
  /\ parsing_errors' = <<>> /\ artist_mismatches' = <<>> /\ missing_from_local' = <<>>
  /\ matches' = <<>>
  /\ i' = 1
  /\ err' = NoError
  /\ log' = <<>> /\ ops' = <<>>
  /\ runs' = runs + 1

\* main.start: Playlist.move_or_copy(input_folders, output_folder, copy, move,
\* dry_run); --copy and --move exclude each other
Invoke ==
  /\ pc = "idle"
  /\ runs < MaxRuns
  /\ \E cp, mv, dry \in BOOLEAN :
       /\ ~(cp /\ mv)
       /\ copy' = cp /\ move' = mv /\ dry_run' = dry
  /\ EnterVerify
  /\ interrupted' = <<>>
  /\ UNCHANGED <<call, startVars, playlistVars, diskVars, faults>>

\* The same command is run again, after it ended or was stopped
Reinvoke ==
  /\ pc \in {"done", "failed", "stopped"}
  /\ runs < MaxRuns
  /\ EnterVerify
  /\ interrupted' = IF pc = "stopped" THEN matches ELSE <<>>
  /\ UNCHANGED <<call, startVars, playlistVars, diskVars, argVars, faults>>

\* collect_audio_files(local_folders)
Scan ==
  /\ pc = "scan"
  /\ \E l1 \in Orderings(Entries(local_folders[1], files, dirs)),
        l2 \in Orderings(Entries(local_folders[2], files, dirs)) :
     \E found \in {collect_audio_files(local_folders, <<l1, l2>>, files)} :
          IF found = <<>>
          THEN /\ err' = [type |-> "ValidationError", field |-> "audio_files"]
               /\ pc' = "failed"
               /\ UNCHANGED local_files
          ELSE /\ local_files' = found
               /\ pc' = "parse"
               /\ UNCHANGED err
  /\ i' = 1
  /\ UNCHANGED <<call, startVars, playlistVars, diskVars, argVars, local_track_map, parsing_errors,
                 artist_mismatches, missing_from_local, matches, log, ops, runs,
                 faults, interrupted>>

\* for file_path in local_files: one iteration
ParseFile ==
  /\ pc = "parse"
  /\ \E file_path \in {local_files[i]} :
     \E r \in {extract_artist_and_track(PathName(file_path))} :
        IF r.ok
        THEN /\ local_track_map' = IndexFile(local_track_map, file_path)
             /\ UNCHANGED parsing_errors
        ELSE /\ parsing_errors' =
                  Append(parsing_errors, [path |-> file_path, reason |-> r.reason])
             /\ UNCHANGED local_track_map
  /\ IF i < Len(local_files)
     THEN i' = i + 1 /\ UNCHANGED pc
     ELSE i' = 1 /\ pc' = IF tracks = <<>> THEN "summary" ELSE "match"
  /\ UNCHANGED <<call, startVars, playlistVars, diskVars, argVars, local_files, artist_mismatches,
                 missing_from_local, matches, err, log, ops, runs, faults, interrupted>>

\* The iteration that puts a new match in front of the list
MatchTrack_prepend ==
  /\ pc = "match"
  /\ \E c \in {ClassifyTrack(tracks[i], local_track_map, album_artist_map)} :
        /\ missing_from_local' =
             IF c.kind = "missing" THEN Append(missing_from_local, c.entry)
             ELSE missing_from_local
        /\ matches' = IF c.kind = "match" THEN <<c.entry>> \o matches ELSE matches
        /\ artist_mismatches' =
             IF c.kind = "mismatch" THEN Append(artist_mismatches, c.entry)
             ELSE artist_mismatches
  /\ IF i < Len(tracks)
     THEN i' = i + 1 /\ UNCHANGED pc
     ELSE i' = 1 /\ pc' = "summary"
  /\ UNCHANGED <<call, startVars, playlistVars, diskVars, argVars, local_files, local_track_map,
                 parsing_errors, err, log, ops, runs, faults, interrupted>>

\* for track in self.tracks: one iteration
MatchTrack ==
  /\ pc = "match"
  /\ \E c \in {ClassifyTrack(tracks[i], local_track_map, album_artist_map)} :
        /\ missing_from_local' =
             IF c.kind = "missing" THEN Append(missing_from_local, c.entry)
             ELSE missing_from_local
        /\ matches' = IF c.kind = "match" THEN Append(matches, c.entry) ELSE matches
        /\ artist_mismatches' =
             IF c.kind = "mismatch" THEN Append(artist_mismatches, c.entry)
             ELSE artist_mismatches
  /\ IF i < Len(tracks)
     THEN i' = i + 1 /\ UNCHANGED pc
     ELSE i' = 1 /\ pc' = "summary"
  /\ UNCHANGED <<call, startVars, playlistVars, diskVars, argVars, local_files, local_track_map,
                 parsing_errors, err, log, ops, runs, faults, interrupted>>

\* The summary statistics and the end of verify_playlist; on success
\* Playlist.move_or_copy enters its loop over the matches
Summary ==
  /\ pc = "summary"
  /\ \E end \in {VerifyEnd(tracks, parsing_errors, artist_mismatches,
                              missing_from_local)} :
        /\ err' = end
        /\ pc' = IF end.type # "none" THEN "failed"
                 ELSE IF matches = <<>> THEN "done"
                 ELSE "apply"
  /\ i' = 1
  /\ UNCHANGED <<call, startVars, playlistVars, diskVars, argVars, verifyVars, log, ops, runs, faults,
                 interrupted>>

\* for match in matches: match.move_or_copy(destination, copy, move, dry_run)
ApplyMatch ==
  /\ pc = "apply"
  /\ \E fault \in (IF faults < MaxFaults THEN Faults ELSE {"none"}) :
     \E r \in {PlaylistMatch_move_or_copy(matches[i], destination, copy, move,
                                          dry_run, fault, files, dirs)} :
     \E after \in {AfterMatch(r.kind, i, Len(matches))} :
       /\ files' = r.files
       /\ dirs' = r.dirs
       /\ log' = Append(log, [index |-> i, kind |-> r.kind, operation |-> r.operation,
                              src |-> r.src, dst |-> r.dst])
       /\ ops' = ops \o [k \in 1..Len(r.calls) |->
                           [index |-> i, call |-> r.calls[k], dst |-> r.dst]]
       /\ err' = IF r.kind = "error"
                 THEN [type |-> "FileOperationError", operation |-> r.operation,
                       filepath |-> r.src]
                 ELSE NoError
       /\ pc' = after
       /\ i' = IF after = "apply" THEN i + 1 ELSE i
       /\ faults' = IF r.kind = "error" /\ r.operation # "validate source"
                       /\ fault # "none"
                    THEN faults + 1 ELSE faults
  /\ UNCHANGED <<call, startVars, playlistVars, argVars, verifyVars, runs, interrupted>>

\* The caller cancels the invocation between two matches of a real run
Stop ==
  /\ pc = "apply"
  /\ i > 1
  /\ ~dry_run /\ (copy \/ move)
  /\ pc' = "stopped"
  /\ UNCHANGED <<call, startVars, playlistVars, diskVars, argVars, verifyVars, i, err, log, ops, runs,
                 faults, interrupted>>

\* A caller that kept the list verify_playlist returned applies the executor
\* to it again, really or as a dry run
ReApply ==
  /\ pc = "done" \/ (pc = "failed" /\ err.type = "FileOperationError")
  /\ matches # <<>>
  /\ runs < MaxRuns
  /\ \E dry \in BOOLEAN : dry_run' = dry
  /\ pc' = "apply"
  /\ i' = 1
  /\ err' = NoError
  /\ log' = <<>> /\ ops' = <<>>
  /\ runs' = runs + 1
  /\ interrupted' = <<>>
  /\ UNCHANGED <<call, startVars, playlistVars, diskVars, copy, move, verifyVars, faults>>

Next ==
  \/ ValidateFolders
  \/ NoPlaylistId
  \/ GetPlaylist
  \/ Invoke
  \/ Reinvoke
  \/ Scan
  \/ ParseFile
  \/ MatchTrack
  \/ Summary
  \/ ApplyMatch
  \/ Stop
  \/ ReApply

Spec == Init /\ [][Next]_vars

(***************************************************************************)
(* Functions applied on their own, to arguments drawn from bounded sets    *)
(***************************************************************************)

programVars ==
  <<refused, is_login, remote_calls, tracks, album_artist_map, files, dirs, copy, move, dry_run, pc, local_files,
    local_track_map, parsing_errors, artist_mismatches, missing_from_local,
    matches, i, err, log, ops, runs, faults, interrupted>>

\* The longest track list of one album that is consolidated
MaxAlbumTracks == 3

\* Tracks of one album: without artists (with two raw album artists), with
\* one of three artists, with two artists, and with one artist listed twice
AlbumTrackCatalogue ==
  { [name |-> <<"A">>, artists |-> arts_raw[1], album_id |-> 1, album_name |-> <<"L">>,
     album_artist |-> arts_raw[2], track_num |-> 1] :
      arts_raw \in { << <<>>, <<"v">> >>,
                     << <<>>, <<"w">> >>,
                     << << <<"x">> >>, <<"v">> >>,
                     << << <<"y">> >>, <<"v">> >>,
                     << << <<"z">> >>, <<"v">> >>,
                     << << <<"y">>, <<"x">> >>, <<"v">> >>,
                     << << <<"x">>, <<"x">> >>, <<"v">> >> } }

AlbumTrackLists ==
  {WrapTracks(raw_tracks) :
     raw_tracks \in UNION {[1..n -> AlbumTrackCatalogue] : n \in 0..MaxAlbumTracks}}

\* The longest string that is normalized, and the longest artist and track
\* that are written into a file name
MaxLen == 2

\* The strings over an alphabet, by length
StringsOver(alphabet, lengths) == UNION {[1..n -> alphabet] : n \in lengths}

\* Characters for normalize_name: letters of both cases, an accented letter
\* of both cases, a compatibility letter, a letter without decomposition, an
\* underscore, a quote, punctuation that is dropped and kept, white space
NormalizeAlphabet ==
  {"a", "A", "e_acute", "E_ACUTE", "H_FRAK", "sharp_s", "_", "'", "!", "-", " ", "\t"}

\* Characters for artists and tracks in file names
NameAlphabet == {"a", "1", ".", "-", " "}

\* Artists and tracks that contain no " - " and are not empty when normalized
RoundTripNames ==
  {n \in StringsOver(NameAlphabet, 1..MaxLen) :
     Find(n, Separator) = 0 /\ normalize_name(n) # <<>>}

\* Metadata values for the planned destination: plain, with characters that
\* are replaced, with separators of both kinds, and made only of characters
\* that are removed, of dots or of spaces
MetadataValues ==
  { <<"x">>, <<"M", ":">>, <<"a", "/", "b">>, <<"a", "\\", "b">>, <<"?">>, <<".", ".">>,
    <<" ">> }

\* Matches to plan a destination for
PlannedMatches ==
  {PlaylistMatch([position |-> 0, name |-> title, artists |-> arts, album_id |-> 1,
                  album_name |-> album, album_artist |-> <<"v">>, track_num |-> num],
                 Append(In1, <<"f">> \o ext), consolidated) :
     title \in {<<"t">>, <<"?">>, <<"a", "/", "b">>},
     arts \in {<< <<"x">> >>, << <<"x">>, <<"y">> >>, << <<"?">> >>},
     album \in MetadataValues,
     consolidated \in MetadataValues,
     num \in {1, 10, 100},
     ext \in {<<".", "m", "p", "3">>, <<".", "F", "L", "A", "C">>}}

FunctionCalls ==
  {[fn |-> "_get_consolidated_album_artist", arg |-> trackList, rets |-> <<>>] :
     trackList \in AlbumTrackLists}
  \cup {[fn |-> "normalize_name", arg |-> name, rets |-> <<>>] :
          name \in StringsOver(NormalizeAlphabet, 0..MaxLen)}
  \cup {[fn |-> "extract_artist_and_track",
          arg |-> [artist |-> artist, track |-> track], rets |-> <<>>] :
          artist \in RoundTripNames, track \in RoundTripNames}
  \cup {[fn |-> "_generate_destination_path", arg |-> match, rets |-> <<>>] :
          match \in PlannedMatches}

\* No playlist, no disk, no invocation: only the call
InitFunctions ==
  /\ refused = <<>> /\ is_login = FALSE /\ remote_calls = <<>>
  /\ tracks = <<>> /\ album_artist_map = EmptyMap
  /\ files = {} /\ dirs = {}
  /\ copy = FALSE /\ move = FALSE /\ dry_run = FALSE
  /\ pc = "idle"
  /\ local_files = <<>> /\ local_track_map = EmptyMap
  /\ parsing_errors = <<>> /\ artist_mismatches = <<>> /\ missing_from_local = <<>>
  /\ matches = <<>>
  /\ i = 1
  /\ err = NoError
  /\ log = <<>> /\ ops = <<>>
  /\ runs = 0 /\ faults = 0
  /\ interrupted = <<>>
  /\ call \in FunctionCalls

\* self._get_consolidated_album_artist(album_tracks)
Call_get_consolidated_album_artist ==
  /\ call.fn = "_get_consolidated_album_artist"
  /\ call.rets = <<>>
  /\ call' = [call EXCEPT !.rets = <<_get_consolidated_album_artist(call.arg)>>]
  /\ UNCHANGED programVars

\* normalize_name(name), and normalize_name of what it returned
Call_normalize_name ==
  /\ call.fn = "normalize_name"
  /\ Len(call.rets) < 2
  /\ call' = [call EXCEPT !.rets =
                Append(@, normalize_name(IF @ = <<>> THEN call.arg ELSE @[1]))]
  /\ UNCHANGED programVars

\* extract_artist_and_track(Path(f"{artist} - {track}.mp3"))
Call_extract_artist_and_track ==
  /\ call.fn = "extract_artist_and_track"
  /\ call.rets = <<>>
  /\ call' = [call EXCEPT !.rets =
                <<extract_artist_and_track(call.arg.artist \o Separator \o call.arg.track
                                             \o <<".", "m", "p", "3">>)>>]
  /\ UNCHANGED programVars

\* match._generate_destination_path(destination)
Call_generate_destination_path ==
  /\ call.fn = "_generate_destination_path"
  /\ call.rets = <<>>
  /\ call' = [call EXCEPT !.rets = <<_generate_destination_path(call.arg, destination)>>]
  /\ UNCHANGED programVars

NextFunctions ==
  \/ Call_get_consolidated_album_artist
  \/ Call_normalize_name
  \/ Call_extract_artist_and_track
  \/ Call_generate_destination_path

SpecFunctions == InitFunctions /\ [][NextFunctions]_vars

(***************************************************************************)
(* Properties                                                              *)
(***************************************************************************)

\* How each scanned file parses, by its index in scan order
Parsed == [k \in 1..Len(local_files) |-> extract_artist_and_track(PathName(local_files[k]))]

\* The scanned files that parse and carry the track's normalized name, by
\* their index in scan order
CandidatesIn(parsed, track) ==
  {k \in DOMAIN parsed : parsed[k].ok /\ parsed[k].track = normalize_name(track.name)}

NormalizedArtistSet(track) ==
  {normalize_name(track.artists[a]) : a \in 1..Len(track.artists)}

Least(S) == CHOOSE k \in S : \A j \in S : k <= j

\* The planned destination of a match
PlannedDestination(m) == _generate_destination_path(m, destination)

\* verify_playlist has run both its loops in this invocation
Reconciled ==
  /\ pc \notin {"start", "validated", "exit", "idle", "scan", "parse", "match"}
  /\ ~(pc = "failed" /\ err.type = "ValidationError")

\* verify_playlist returned its list of matches to the caller
Returned ==
  \/ pc \in {"apply", "done", "stopped"}
  \/ pc = "failed" /\ err.type = "FileOperationError"

\* The invocation really copies or moves
RealRun == ~dry_run /\ (copy \/ move)

\* C1: whenever reconciliation has recorded a parsing failure, an artist
\* mismatch or a missing track, the invocation has failed with a
\* PlaylistVerificationError that carries the three lists, and the executor
\* has made no system call and reported nothing.
C1_AllOrNothing ==
  (/\ Reconciled
   /\ pc # "summary"
   /\ parsing_errors # <<>> \/ artist_mismatches # <<>> \/ missing_from_local # <<>>)
  => /\ pc = "failed"
     /\ err = [type |-> "PlaylistVerificationError",
               parsing_errors |-> parsing_errors,
               artist_mismatches |-> artist_mismatches,
               missing_from_playlist |-> missing_from_local]
     /\ ops = <<>>
     /\ log = <<>>

\* C2: in the list verify_playlist returns, no two matches have the same
\* local file.
C2_FileInAtMostOneMatch ==
  Returned =>
    \A a, b \in 1..Len(matches) :
      matches[a].local_file = matches[b].local_file => a = b

\* C3 as stated: the file of every match is the first candidate in scan
\* order whose normalized artist is any of the track's normalized artists.
C3_FirstCandidateOfAnyArtist ==
  \A parsed \in {Parsed} :
  \A n \in 1..Len(matches) :
    \A hits \in {{k \in CandidatesIn(parsed, matches[n].track) :
                    parsed[k].artist \in NormalizedArtistSet(matches[n].track)}} :
       /\ hits # {}
       /\ matches[n].local_file = local_files[Least(hits)]

\* C3 as amended: the file of every match is the first candidate in scan
\* order whose normalized artist is the earliest artist of the track's own
\* list that any candidate carries.
C3_FirstCandidateOfEarliestArtist ==
  \A parsed \in {Parsed} :
  \A n \in 1..Len(matches) :
    \A cands \in {CandidatesIn(parsed, matches[n].track)} :
    \A wanted \in {normalized_artists(matches[n].track)} :
    \A listed \in {{a \in 1..Len(wanted) : \E k \in cands : parsed[k].artist = wanted[a]}} :
       /\ listed # {}
       /\ matches[n].local_file =
            local_files[Least({k \in cands : parsed[k].artist = wanted[Least(listed)]})]

\* A match whose track lists two artists, each carried by a candidate, and
\* whose file is not the first of those candidates in scan order
C3_Witness ==
  \E parsed \in {Parsed} :
  \E n \in 1..Len(matches) :
    \E hits \in {{k \in CandidatesIn(parsed, matches[n].track) :
                    parsed[k].artist \in NormalizedArtistSet(matches[n].track)}} :
       /\ Cardinality(hits) > 1
       /\ matches[n].local_file # local_files[Least(hits)]

\* C4: once both loops have run, every playlist track is in exactly one of
\* the three outcomes: missing iff no parsed file has its normalized name,
\* artist mismatch iff some parsed file has the name but none has one of its
\* normalized artists, otherwise exactly one match; every file that fails to
\* parse is a parsing failure and is in no index entry and in no match.
C4_Classification ==
  Reconciled =>
    \A parsed \in {Parsed} :
      /\ \A n \in 1..Len(tracks) :
           \A cands \in {CandidatesIn(parsed, tracks[n])} :
           \A byArtist \in {{k \in cands :
                               parsed[k].artist \in NormalizedArtistSet(tracks[n])}} :
           \A nMissing \in {Cardinality({k \in 1..Len(missing_from_local) :
                               missing_from_local[k].position = tracks[n].position + 1})} :
           \A nMismatch \in {Cardinality({k \in 1..Len(artist_mismatches) :
                               artist_mismatches[k].position = tracks[n].position + 1})} :
           \A nMatch \in {Cardinality({k \in 1..Len(matches) :
                               matches[k].track.position = tracks[n].position})} :
              /\ nMissing + nMismatch + nMatch = 1
              /\ nMissing = 1 <=> cands = {}
              /\ nMismatch = 1 <=> (cands # {} /\ byArtist = {})
              /\ nMatch = 1 <=> byArtist # {}
      /\ \A failed \in {{local_files[k] : k \in {j \in DOMAIN parsed : ~parsed[j].ok}}} :
           /\ {parsing_errors[k].path : k \in 1..Len(parsing_errors)} = failed
           /\ Len(parsing_errors) = Cardinality(failed)
           /\ \A n \in 1..Len(matches) : matches[n].local_file \notin failed
           /\ \A name \in DOMAIN local_track_map :
                \A k \in 1..Len(local_track_map[name]) :
                   local_track_map[name][k][2] \notin failed

\* A reconciliation with a match, an artist mismatch and a parsing failure
C4_Witness ==
  /\ Reconciled
  /\ matches # <<>>
  /\ artist_mismatches # <<>>
  /\ parsing_errors # <<>>

AllDestinationsExist ==
  \A n \in 1..Len(matches) : PlannedDestination(matches[n]) \in files \cup dirs

\* C5: when every planned destination exists, a real application of a match
\* (copy or move) makes no system call, changes nothing on disk, raises no
\* error and reports the file as skipped.
C5_DestinationIdempotence ==
  [][(pc = "apply" /\ RealRun /\ AllDestinationsExist /\ pc' # "stopped")
       => /\ files' = files /\ dirs' = dirs
          /\ ops' = ops
          /\ err' = NoError
          /\ Len(log') = Len(log) + 1
          /\ log'[Len(log')].kind = "skip"]_vars

\* The matches refer to pairwise different local files
DistinctFiles(ms) ==
  \A a, b \in 1..Len(ms) : ms[a].local_file = ms[b].local_file => a = b

\* C6: when a stopped real invocation, whose matches refer to different
\* files, is invoked again with the same arguments and no system call fails,
\* it ends normally and every destination planned by the stopped invocation
\* exists.
C6_ResumeCompletes ==
  (/\ interrupted # <<>> /\ DistinctFiles(interrupted)
   /\ faults = 0
   /\ pc \in {"done", "failed"})
    => /\ pc = "done"
       /\ \A n \in 1..Len(interrupted) : PlannedDestination(interrupted[n]) \in files

\* C7: applying a match in a dry run leaves the files and the directories as
\* they are and makes no system call, and still fails with the source
\* validation error when the source does not exist.
C7_DryRunTouchesNothing ==
  [][(pc = "apply" /\ dry_run)
       => /\ files' = files /\ dirs' = dirs
          /\ ops' = ops
          /\ ((copy \/ move) /\ matches[i].local_file \notin files \cup dirs)
               => err' = [type |-> "FileOperationError", operation |-> "validate source",
                          filepath |-> matches[i].local_file]]_vars

\* A dry run has reported a copy or move onto a destination that exists
C7_Witness ==
  /\ dry_run
  /\ \E k \in 1..Len(log) : log[k].kind = "would" /\ log[k].dst \in files

\* What an application reports: the error and its operation, the skip, or
\* the copy/move and the destination
Reported(r) ==
  IF r.kind = "error" THEN [outcome |-> "error", operation |-> r.operation, dst |-> NoPath]
  ELSE IF r.kind = "skip" THEN [outcome |-> "skip", operation |-> r.operation, dst |-> r.dst]
  ELSE [outcome |-> "transfer", operation |-> r.operation, dst |-> r.dst]

\* C8: for the match about to be applied, a dry run reports the outcome a
\* real run produces from the same state.
C8_DryRunReportsRealOutcome ==
  (pc = "apply" /\ (copy \/ move)) =>
    Reported(PlaylistMatch_move_or_copy(matches[i], destination, copy, move,
                                        TRUE, "none", files, dirs))
    = Reported(PlaylistMatch_move_or_copy(matches[i], destination, copy, move,
                                          FALSE, "none", files, dirs))

\* C9: when applying match i has raised FileOperationError, the invocation
\* has ended there, no system call and no report belongs to a later match,
\* and the error names the operation and the source path of match i.
C9_FileFailureStopsRun ==
  err.type = "FileOperationError" =>
    /\ pc = "failed"
    /\ \A k \in 1..Len(ops) : ops[k].index <= i
    /\ \A k \in 1..Len(log) : log[k].index <= i
    /\ log[Len(log)].index = i /\ log[Len(log)].kind = "error"
    /\ err.filepath = matches[i].local_file
    /\ err.operation \in {"validate source", IF move THEN "move" ELSE "copy"}

\* The executor failed on a match that is not the last one
C9_Witness ==
  /\ pc = "failed"
  /\ err.type = "FileOperationError"
  /\ i < Len(matches)

\* C10: the album-artist map has an entry for exactly the album ids of the
\* playlist's tracks, and every match carries the consolidation of all the
\* playlist's tracks of its album.
C10_ConsolidatedAlbumArtist ==
  /\ DOMAIN album_artist_map = {tracks[n].album_id : n \in 1..Len(tracks)}
  /\ \A n \in 1..Len(matches) :
       matches[n].consolidated_album_artist =
         _get_consolidated_album_artist(AlbumTracks(tracks, matches[n].track.album_id))

\* A match whose album-artist differs from the track's raw album artist and
\* from what the track alone would consolidate to
C10_Witness ==
  \E n \in 1..Len(matches) :
    /\ matches[n].consolidated_album_artist # matches[n].track.album_artist
    /\ matches[n].consolidated_album_artist
         # _get_consolidated_album_artist(<<matches[n].track>>)


\* The number of tracks that list the artist
TracksListing(artist, trackList) ==
  Cardinality({t \in 1..Len(trackList) : artist \in SeqRange(trackList[t].artists)})

\* The number of places, over all the tracks, where the artist is listed
Listings(artist, trackList) ==
  Cardinality({tk \in UNION {{<<t, k>> : k \in 1..Len(trackList[t].artists)} :
                               t \in 1..Len(trackList)} :
                 trackList[tk[1]].artists[tk[2]] = artist})

\* The frequency rule, for a given way of counting
FrequencyRule(result, trackList, Count(_, _)) ==
  LET listed == UNION {SeqRange(trackList[t].artists) : t \in 1..Len(trackList)}
      top == {a \in listed : \A b \in listed : Count(b, trackList) <= Count(a, trackList)}
  IN IF trackList = <<>> THEN result = UnknownArtist
     ELSE IF listed = {} THEN result = trackList[1].album_artist
     ELSE IF Cardinality(top) = 1 THEN result \in top
     ELSE IF Cardinality(top) = 2
     THEN \E a, b \in top : LessStr(a, b) /\ result = a \o <<" ", "&", " ">> \o b
     ELSE result = VariousArtists

Consolidated ==
  call.fn = "_get_consolidated_album_artist" /\ call.rets # <<>>

\* C11 as stated: the consolidated album artist of a track list follows the
\* frequency rule when each artist is counted once per track that lists it
C11_CountedOncePerTrack ==
  Consolidated => FrequencyRule(call.rets[1], call.arg, TracksListing)

\* C11: the consolidated album artist of a track list follows the frequency
\* rule when every listing of an artist is counted (an artist listed twice
\* on one track counts twice): the only artist with the highest count, the
\* two tied artists joined by " & " in lexical order, "Various Artists" for
\* a tie of three or more, "Unknown Artist" for no tracks, the first track's
\* raw album artist when no track lists an artist
C11_CountedPerListing ==
  Consolidated => FrequencyRule(call.rets[1], call.arg, Listings)

\* An artist listed twice on one track wins over an artist of another track
C11_Witness ==
  /\ Consolidated
  /\ \E t \in 1..Len(call.arg) : call.arg[t].artists = << <<"x">>, <<"x">> >>
  /\ \E t \in 1..Len(call.arg) : call.arg[t].artists = << <<"y">> >>
  /\ Len(call.arg) = 2
  /\ call.rets[1] = <<"x">>


\* C12: the matches are in playlist order: the positions of their tracks
\* increase strictly along the list, so no track has two matches, and the
\* executor is applied to the matches one after the other in that order
C12_MatchOrderIsPlaylistOrder ==
  /\ \A j, k \in DOMAIN matches :
       j < k => matches[j].track.position < matches[k].track.position
  /\ \A t \in DOMAIN tracks :
       Cardinality({k \in DOMAIN matches : matches[k].track = tracks[t]}) <= 1
  /\ \A k \in DOMAIN log :
       /\ log[k].index = k
       /\ k <= Len(matches)
       /\ log[k].src = matches[k].local_file
  /\ \A j, k \in DOMAIN ops : j < k => ops[j].index <= ops[k].index

\* Two matches were applied, both by a system call
C12_Witness ==
  /\ RealRun
  /\ Len(matches) = 2
  /\ Len(log) = 2
  /\ \E j, k \in DOMAIN ops : ops[j].index = 1 /\ ops[k].index = 2


\* What is wrong with an input folder, "ok" when nothing is
Offence(folder) ==
  IF folder \notin files \cup dirs THEN "missing"
  ELSE IF folder \notin dirs THEN "not a directory"
  ELSE IF folder \in DOMAIN refused THEN "unreadable"
  ELSE "ok"

\* The input folders with the given offence, in input order
Offenders(offence) ==
  LET Is(folder) == Offence(folder) = offence IN SelectSeq(local_folders, Is)

\* The folder a report entry names
ReportedFolder(entry) == <<entry[1]>>

\* C13: validate_input_folders tests every input folder and puts each
\* offending one in exactly one of the lists missing / not a directory /
\* unreadable; it raises one FolderValidationError carrying the three lists
\* when one of them is non-empty, and then main.start ends without a login,
\* a playlist fetch or a reconciliation; the service is called and a
\* Playlist is invoked only when no input folder offends
C13_FolderValidationFirst ==
  /\ pc # "start" /\ (\E k \in DOMAIN local_folders : Offence(local_folders[k]) # "ok")
       => /\ err.type = "FolderValidationError"
          /\ err.missing_folders = Offenders("missing")
          /\ err.not_directories = Offenders("not a directory")
          /\ [k \in DOMAIN err.permission_errors |-> ReportedFolder(err.permission_errors[k])]
               = Offenders("unreadable")
          /\ pc = "exit"
          /\ ~is_login /\ remote_calls = <<>>
          /\ tracks = <<>> /\ album_artist_map = EmptyMap
          /\ runs = 0 /\ local_files = <<>> /\ local_track_map = EmptyMap
          /\ matches = <<>> /\ log = <<>> /\ ops = <<>>
  /\ err.type = "FolderValidationError"
       => \E k \in DOMAIN local_folders : Offence(local_folders[k]) # "ok"

\* Validation failed on two folders with different offences, both reported
C13_Witness ==
  /\ pc = "exit"
  /\ err.type = "FolderValidationError"
  /\ err.missing_folders = <<In1>>
  /\ err.not_directories = <<In2>>
  /\ err.permission_errors = <<>>


\* The audio files of a folder in the order of their names, whatever the
\* order in which the folder lists them
AudioFilesByName(folder) ==
  LET audio == {q \in Entries(folder, files, dirs) : IsAudioFile(q, files)}
  IN CHOOSE l \in Orderings(audio) :
       \A j, k \in 1..Len(l) : j < k => LessStr(PathName(l[j]), PathName(l[k]))

\* The index and the parsing failures after one more scanned file
IndexStep(before, file_path, r) ==
  IF r.ok THEN [before EXCEPT !.map = IndexFile(@, file_path)]
  ELSE [before EXCEPT !.errors = Append(@, [path |-> file_path, reason |-> r.reason])]

\* The index and the parsing failures after the loop over the scanned files
RECURSIVE IndexAll(_)
IndexAll(scanned) ==
  IF scanned = <<>> THEN [map |-> EmptyMap, errors |-> <<>>]
  ELSE IndexStep(IndexAll(SubSeq(scanned, 1, Len(scanned) - 1)), scanned[Len(scanned)],
                 extract_artist_and_track(PathName(scanned[Len(scanned)])))

\* The three lists after one more track
ClassifyStep(before, c) ==
  IF c.kind = "match" THEN [before EXCEPT !.matches = Append(@, c.entry)]
  ELSE IF c.kind = "mismatch" THEN [before EXCEPT !.mismatches = Append(@, c.entry)]
  ELSE [before EXCEPT !.missing = Append(@, c.entry)]

\* The three lists after the loop over the first n tracks
RECURSIVE ClassifyAll(_, _, _)
ClassifyAll(n, map, artistMap) ==
  IF n = 0 THEN [matches |-> <<>>, mismatches |-> <<>>, missing |-> <<>>]
  ELSE ClassifyStep(ClassifyAll(n - 1, map, artistMap),
                    ClassifyTrack(tracks[n], map, artistMap))

\* C14: the result of reconciliation is a function of the playlist and of
\* the set of files in each folder: whatever the order in which a folder
\* lists its entries, the scanned list is the folders' audio files by name,
\* and when the two loops have ended the match list and the three report
\* lists are what the loops make of that list and the playlist
C14_ReconciliationDeterminism ==
  /\ pc \in {"parse", "match", "summary"}
       => local_files = AudioFilesByName(local_folders[1])
                          \o AudioFilesByName(local_folders[2])
  /\ pc = "summary" =>
       \A ix \in {IndexAll(local_files)} :
       \A cl \in {ClassifyAll(Len(tracks), ix.map, album_artist_map)} :
         /\ parsing_errors = ix.errors
         /\ matches = cl.matches
         /\ artist_mismatches = cl.mismatches
         /\ missing_from_local = cl.missing

\* A folder with two audio files, which it may list in two orders, was
\* scanned and reconciled into a match and a report entry
C14_Witness ==
  /\ pc = "summary"
  /\ Len(local_files) >= 2
  /\ PathParent(local_files[1]) = PathParent(local_files[2])
  /\ matches # <<>>
  /\ parsing_errors # <<>> \/ missing_from_local # <<>> \/ artist_mismatches # <<>>


Planned ==
  call.fn = "_generate_destination_path" /\ call.rets # <<>>

\* C15: the planned destination of a match is the destination root followed
\* by exactly three segments, none of them empty: the sanitized consolidated
\* album artist, the sanitized album name, and the file name made of the
\* track number on at least two digits, the sanitized artists joined by
\* ", ", the sanitized title and the extension of the local file
C15_DestinationShape ==
  Planned =>
    \A p \in {call.rets[1]} :
    \A m \in {call.arg} :
      /\ Len(p) = Len(destination) + 3
      /\ SubSeq(p, 1, Len(destination)) = destination
      /\ \A k \in 1..Len(p) : p[k] # <<>>
      /\ p[Len(destination) + 1] = sanitize_filename(m.consolidated_album_artist)
      /\ p[Len(destination) + 2] = sanitize_filename(m.track.album_name)
      /\ p[Len(p)] = Pad2(m.track.track_num) \o Separator
                       \o sanitize_filename(Join(<<",", " ">>, m.track.artists))
                       \o Separator \o sanitize_filename(m.track.name)
                       \o Suffix(PathName(m.local_file))

Parsed1 ==
  call.fn = "extract_artist_and_track" /\ call.rets # <<>>

\* C16: for an artist and a track that contain no " - " and are not empty
\* when normalized, parsing the file name "<artist> - <track>.mp3" succeeds
\* and gives the normalized artist and the normalized track
C16_ParseRoundTrip ==
  Parsed1 =>
    /\ call.rets[1].ok
    /\ call.rets[1].artist = normalize_name(call.arg.artist)
    /\ call.rets[1].track = normalize_name(call.arg.track)

\* C17: normalizing a normalized name gives the same name
C17_NormalizeIdempotent ==
  call.fn = "normalize_name" /\ Len(call.rets) = 2 => call.rets[2] = call.rets[1]


\* The system calls of the running application that copy or move a file
Transfers == {k \in DOMAIN ops : ops[k].call \in {"copy", "move"}}

\* No destination is the target of two copies or moves of one application
WrittenAtMostOnce ==
  \A j, k \in Transfers : j # k => ops[j].dst # ops[k].dst

\* C18: in one application of the matches that really copies or moves, no
\* destination path is the target of two copy or move calls, and a match
\* that plans the destination an earlier match has written is skipped
C18_DestinationWrittenOnce ==
  RealRun =>
    /\ WrittenAtMostOnce
    /\ \A j, k \in DOMAIN log :
         j < k /\ log[j].kind = "done" /\ log[k].dst = log[j].dst
           => log[k].kind = "skip"


\* C19: once the folders were scanned, verify_playlist either returns its
\* matches to the caller, the three report lists being empty, or raises
\* PlaylistVerificationError, whatever the playlist, the empty one included
C19_VerifyEndsInTwoWays ==
  Reconciled /\ pc # "summary" =>
    \/ /\ Returned
       /\ parsing_errors = <<>> /\ artist_mismatches = <<>> /\ missing_from_local = <<>>
    \/ /\ pc = "failed"
       /\ err.type = "PlaylistVerificationError"

=============================================================================
